---- MODULE Spec2Model ----
(***************************************************************************)
(* Deck-girder geometry dialog of BridgeModule.tsx: the carriageway-width  *)
(* field, openGeometryModal and the three single-field edit handlers       *)
(* updateFromSpacing, updateFromGirders and updateFromOverhang.            *)
(*                                                                         *)
(* Numbers.  A JavaScript number is modelled as an integer count of        *)
(* hundredths (250 is 2.5, 400 is the girder count 4), or as one of the    *)
(* two values Infinity and NegInfinity.  Quotients and products are kept   *)
(* as exact fractions p/q until Math.floor, Math.round or toFixed(1)       *)
(* rounds them, with the tie rules of those functions.  The input sets     *)
(* below are chosen so that no rounded value is an inexact decimal tie:    *)
(* on them exact decimal evaluation and IEEE-754 double evaluation store   *)
(* the same triples.                                                       *)
(*                                                                         *)
(* React state of type `T | null` or `number | ""` is modelled as a        *)
(* sequence of length at most one: <<>> is null / "", <<v>> holds v.       *)
(*                                                                         *)
(* The page holds five parts that share no state , each with its own       *)
(* specification over the same variables (the other parts stay idle):      *)
(*   Spec         the geometry dialog;                                     *)
(*   SpecCustom   the custom loading parameters dialog and the closest-    *)
(*                location request it sends;                               *)
(*   SpecMatcher  findClosest, the matcher behind /api/closest/, as a pure *)
(*                function applied to bounded queries and catalogs;        *)
(*   SpecForm     the structure type, the geometric details with their     *)
(*                validation on blur, and the Validate & Proceed button;   *)
(*   SpecLocation the state and district selects and their requests.       *)
(***************************************************************************)
EXTENDS Integers, Sequences, FiniteSets, TLC

VARIABLES carriagewayWidth, geometry, geometryError, showModal, last

\* The custom loading parameters dialog, the requests of the page and the
\* backend it talks to.
VARIABLES locationMode, showCustomModal, manualParams, fields, closestLocation,
          env, inFlight, backendCatalog

\* One application of findClosest.
VARIABLES mQuery, mCatalog, mResult

\* The structure type and the geometric details of the left panel, with
\* their field-level messages.
VARIABLES structureType, span, skewAngle, spanError, carriagewayError,
          skewError, skewWarning

\* The state and district selects, the parameters fetched for a district
\* (windSpeed, seismicZone, minTemp and maxTemp, as the fields of
\* autoParams) and the requests awaiting their response.
VARIABLES states, districts, selectedState, selectedDistrict, autoParams, pending

geometryVars == <<carriagewayWidth, geometry, geometryError, showModal, last>>
customVars == <<locationMode, showCustomModal, manualParams, fields,
                closestLocation, env, inFlight, backendCatalog>>
matcherVars == <<mQuery, mCatalog, mResult>>
formVars == <<structureType, span, skewAngle, spanError, carriagewayError,
              skewError, skewWarning>>
locationVars == <<states, districts, selectedState, selectedDistrict,
                  autoParams, pending>>

vars == <<geometryVars, formVars, locationVars, customVars, matcherVars>>

\* Hundredths per unit of length (and per girder).
Unit == 100

\* Number.POSITIVE_INFINITY / NEGATIVE_INFINITY: beyond every finite value the
\* bounded model stores, so that <, <=, >= order them as JavaScript does.
Infinity == Unit * Unit * Unit * Unit
NegInfinity == 0 - Infinity
IsFinite(x) == x # Infinity /\ x # NegInfinity

Abs(x) == IF x < 0 THEN 0 - x ELSE x

----------------------------------------------------------------------------
\* Rounding primitives on an exact fraction p/q, q # 0.

\* floor(p/q)
FloorDiv(p, q) == IF q > 0 THEN p \div q ELSE (0 - p) \div (0 - q)

\* Math.floor(p/q), as a number
MathFloor(p, q) == FloorDiv(p, q) * Unit

\* A wrong rounding: truncation toward zero (differs from Math.round on x.5 and up).
MathRoundTrunc(p, q) == FloorDiv(p, q) * Unit

\* Math.round(p/q): the nearest integer, a tie going to the larger one.
MathRound(p, q) ==
    IF q > 0 THEN FloorDiv(2 * p + q, 2 * q) * Unit
    ELSE FloorDiv(2 * (0 - p) + (0 - q), 2 * (0 - q)) * Unit

\* (p/q).toFixed(1): the decimal with one digit nearest to p/q, a tie going away
\* from zero; the result is the signed count of tenths the string denotes.
ToFixed1(p, q) ==
    LET ap == Abs(p)
        aq == Abs(q)
        tenths == (ap \div aq) * 10 + ((ap % aq) * 20 + aq) \div (2 * aq)
    IN  IF (p < 0) # (q < 0) THEN 0 - tenths ELSE tenths

\* Number("<tenths>"): the string of toFixed(1) parsed back.
NumberOfTenths(n) == n * (Unit \div 10)

\* Number((p/q).toFixed(1))
Round1(p, q) == NumberOfTenths(ToFixed1(p, q))

----------------------------------------------------------------------------
\* The expressions of the handlers.

\* carriagewayWidth + 5
OverallWidth(width) == width + 5 * Unit

\* const spacing = 2.5
DefaultSpacing == 25 * (Unit \div 10)

\* A wrong default: the quotient is rounded to the nearest integer.
DefaultGirdersRounded(overallWidth) == MathRound(overallWidth - 2 * Unit, DefaultSpacing)

\* Math.floor((overallWidth - 2) / spacing)
DefaultGirders(overallWidth) == MathFloor(overallWidth - 2 * Unit, DefaultSpacing)

\* Number((overallWidth - girders * spacing).toFixed(1)).  An infinite spacing
\* is only ever multiplied by a positive girder count (updateFromGirders), which
\* makes the difference -Infinity, and toFixed / Number keep it.
OverhangOf(overallWidth, girders, spacing) ==
    IF IsFinite(spacing)
    THEN Round1(overallWidth * Unit - girders * spacing, Unit * Unit)
    ELSE IF (girders > 0) = (spacing > 0) THEN NegInfinity ELSE Infinity

\* Math.round((overallWidth - geometry.overhang) / spacing), spacing > 0
GirdersFromSpacing(overallWidth, overhang, spacing) ==
    MathRound(overallWidth - overhang, spacing)

\* Number(((overallWidth - overhang) / geometry.girders).toFixed(1)), called
\* with overhang < overallWidth: a zero girder count divides a positive number.
SpacingFromOverhang(overallWidth, overhang, girders) ==
    IF girders = 0 THEN Infinity
    ELSE Round1(overallWidth - overhang, girders)

Geometry(s, g, o) == [spacing |-> s, girders |-> g, overhang |-> o]

----------------------------------------------------------------------------
\* The values the user can put into the fields.

\* Girder counts 1..MaxGirders are typed into the girder field.
MaxGirders == 5

\* Carriageway widths typed into the field: -4, -2.5 and 7.5 (overall widths
\* 1, 2.5 and 12.5); the field has no min attribute.
WidthInputs == {0 - 400, 0 - 250, 750}

\* Number(e.target.value) of the spacing field: -1, 0 (also the cleared field),
\* 0.06, 2.5, 3, 6, 12.5, 13.
SpacingInputs == {0 - 100, 0, 6, 250, 300, 600, 1250, 1300}

\* Number(e.target.value) of the girder field: -1, 0, 2.2 and 1..MaxGirders.
GirderInputs == {0 - 100, 0, 220} \cup {n * Unit : n \in 1..MaxGirders}

\* Number(e.target.value) of the overhang field: -0.1, 0, 2.38, 2.5, 6.44, 10, 12.5.
OverhangInputs == {0 - 10, 0, 238, 250, 644, 1000, 1250}

\* The messages setGeometryError is called with.
ErrInvalidSpacing == "Invalid spacing"
ErrInvalidGirders == "Number of girders must be positive"
ErrInvalidOverhang == "Invalid overhang"
ErrConstraint == "Geometry constraints violated"

\* What the last handler run was: its name, its argument, and the triple and
\* the error message it started from; and, while the dialog is open, how
\* the most recent edit since it was opened ended (edit) and how the most
\* recent one that was not ignored ended (effective).  A history record,
\* read by no handler.
Last(op, arg) ==
    [op |-> op, arg |-> arg, pre |-> geometry, preError |-> geometryError,
     edit |-> last.edit, effective |-> last.effective]

\* The history of a dialog in which no edit has been made.
NoEdit(record) == [record EXCEPT !.edit = "none", !.effective = "none"]

----------------------------------------------------------------------------
GeometryInit ==
    /\ carriagewayWidth = <<>>
    /\ geometry = <<>>
    /\ geometryError = ""
    /\ showModal = FALSE
    /\ last = [op |-> "none", arg |-> 0, pre |-> <<>>, preError |-> "",
               edit |-> "none", effective |-> "none"]

\* onChange of the carriageway width field, disabled for structure type
\* "Other": setCarriagewayWidth(e.target.value === "" ? "" : Number(...)).
SetCarriagewayWidthTo(v) ==
    /\ structureType # "Other"
    /\ carriagewayWidth' = v
    /\ last' = Last("setCarriagewayWidth", 0)
    /\ UNCHANGED <<geometry, geometryError, showModal>>
    /\ UNCHANGED <<formVars, locationVars, customVars, matcherVars>>

SetCarriagewayWidth ==
    \E v \in {<<>>} \cup {<<w>> : w \in WidthInputs} : SetCarriagewayWidthTo(v)

\* The triple openGeometryModal stores for a numeric carriageway width.
DefaultGeometry(width) ==
    LET overallWidth == OverallWidth(width)
        girders == DefaultGirders(overallWidth)
    IN  Geometry(DefaultSpacing, girders,
                 OverhangOf(overallWidth, girders, DefaultSpacing))

\* onClick of "Modify Additional Geometry", disabled for structure type
\* "Other".
OpenGeometryModal ==
    /\ structureType # "Other"
    /\ IF carriagewayWidth = <<>>
       THEN /\ last' = Last("openGeometryModal", 0)
            /\ UNCHANGED <<geometry, geometryError, showModal>>
       ELSE /\ last' = NoEdit(Last("openGeometryModal", 0))
            /\ geometry' = <<DefaultGeometry(carriagewayWidth[1])>>
            /\ geometryError' = ""
            /\ showModal' = TRUE
    /\ UNCHANGED carriagewayWidth
    /\ UNCHANGED <<formVars, locationVars, customVars, matcherVars>>

\* What an edit handler does to (geometry, geometryError).

\* A wrong rejection: the triple is dropped when the error is raised.
RejectAndClear(msg) ==
    [geometry |-> <<>>, geometryError |-> msg, outcome |-> "rejected"]

\* A wrong acceptance: the triple is stored and the error message left.
StoreKeepingError(g) ==
    [geometry |-> <<g>>, geometryError |-> geometryError, outcome |-> "accepted"]

\* A wrong early return: the error message is cleared on the way out.
IgnoreClearingError ==
    [geometry |-> geometry, geometryError |-> "", outcome |-> "ignored"]

\* setGeometryError(msg); return
Reject(msg) == [geometry |-> geometry, geometryError |-> msg, outcome |-> "rejected"]
\* setGeometry(g); setGeometryError("")
Store(g) == [geometry |-> <<g>>, geometryError |-> "", outcome |-> "accepted"]
\* if (!geometry || typeof carriagewayWidth !== "number") return
Ignore == [geometry |-> geometry, geometryError |-> geometryError, outcome |-> "ignored"]

updateFromSpacing(spacing) ==
    IF geometry = <<>> \/ carriagewayWidth = <<>> THEN Ignore
    ELSE LET overallWidth == OverallWidth(carriagewayWidth[1])
             girders == GirdersFromSpacing(overallWidth, geometry[1].overhang, spacing)
             overhang == OverhangOf(overallWidth, girders, spacing)
         IN  IF spacing <= 0 \/ spacing >= overallWidth
             THEN Reject(ErrInvalidSpacing)
             ELSE IF overhang < 0
             THEN Reject(ErrConstraint)
             ELSE Store(Geometry(spacing, girders, overhang))

\* A wrong range check: the boundary overhang 0.0 is refused.
OverhangOutOfRangeStrict(overhang, overallWidth) ==
    overhang <= 0 \/ overhang >= overallWidth

\* overhang < 0 || overhang >= overallWidth, on the recomputed overhang
OverhangOutOfRange(overhang, overallWidth) ==
    overhang < 0 \/ overhang >= overallWidth

\* A wrong policy: the overhang is held and the spacing recomputed.
updateFromGirdersHoldingOverhang(girders) ==
    IF geometry = <<>> \/ carriagewayWidth = <<>> THEN Ignore
    ELSE LET overallWidth == OverallWidth(carriagewayWidth[1])
             spacing == SpacingFromOverhang(overallWidth, geometry[1].overhang, girders)
         IN  IF girders <= 0
             THEN Reject(ErrInvalidGirders)
             ELSE IF spacing <= 0
             THEN Reject(ErrConstraint)
             ELSE Store(Geometry(spacing, girders, geometry[1].overhang))

\* A wrong recomputation: the overhang is taken from the stored girder count.
updateFromGirdersStale(girders) ==
    IF geometry = <<>> \/ carriagewayWidth = <<>> THEN Ignore
    ELSE LET overallWidth == OverallWidth(carriagewayWidth[1])
             overhang == OverhangOf(overallWidth, geometry[1].girders, geometry[1].spacing)
         IN  IF girders <= 0
             THEN Reject(ErrInvalidGirders)
             ELSE IF OverhangOutOfRange(overhang, overallWidth)
             THEN Reject(ErrConstraint)
             ELSE Store(Geometry(geometry[1].spacing, girders, overhang))

updateFromGirders(girders) ==
    IF geometry = <<>> \/ carriagewayWidth = <<>> THEN Ignore
    ELSE LET overallWidth == OverallWidth(carriagewayWidth[1])
             overhang == OverhangOf(overallWidth, girders, geometry[1].spacing)
         IN  IF girders <= 0
             THEN Reject(ErrInvalidGirders)
             ELSE IF OverhangOutOfRange(overhang, overallWidth)
             THEN Reject(ErrConstraint)
             ELSE Store(Geometry(geometry[1].spacing, girders, overhang))

\* A wrong range check: an overhang equal to the overall width passes.
OverhangInvalidLax(overhang, overallWidth) ==
    overhang < 0 \/ overhang > overallWidth

\* overhang < 0 || overhang >= overallWidth, on the edited overhang
OverhangInvalid(overhang, overallWidth) ==
    overhang < 0 \/ overhang >= overallWidth

updateFromOverhang(overhang) ==
    IF geometry = <<>> \/ carriagewayWidth = <<>> THEN Ignore
    ELSE LET overallWidth == OverallWidth(carriagewayWidth[1])
             spacing == SpacingFromOverhang(overallWidth, overhang, geometry[1].girders)
         IN  IF OverhangInvalid(overhang, overallWidth)
             THEN Reject(ErrInvalidOverhang)
             ELSE IF spacing <= 0
             THEN Reject(ErrConstraint)
             ELSE Store(Geometry(spacing, geometry[1].girders, overhang))

\* A handler's result becomes the state; the fields exist only in the dialog.
Edit(op, arg, result) ==
    /\ showModal
    /\ geometry' = result.geometry
    /\ geometryError' = result.geometryError
    /\ last' = [Last(op, arg) EXCEPT
                    !.edit = result.outcome,
                    !.effective = IF result.outcome = "ignored" THEN last.effective
                                  ELSE result.outcome]
    /\ UNCHANGED <<carriagewayWidth, showModal>>
    /\ UNCHANGED <<formVars, locationVars, customVars, matcherVars>>

\* onChange of the three fields of the dialog.
UpdateFromSpacing == \E s \in SpacingInputs : Edit("updateFromSpacing", s, updateFromSpacing(s))
UpdateFromGirders == \E n \in GirderInputs : Edit("updateFromGirders", n, updateFromGirders(n))
UpdateFromOverhang == \E o \in OverhangInputs : Edit("updateFromOverhang", o, updateFromOverhang(o))

\* onClick of Cancel.
CancelModal ==
    /\ showModal
    /\ showModal' = FALSE
    /\ last' = NoEdit(Last("cancel", 0))
    /\ UNCHANGED <<carriagewayWidth, geometry, geometryError>>
    /\ UNCHANGED <<formVars, locationVars, customVars, matcherVars>>

\* onClick of Confirm, disabled while geometryError is set.
ConfirmModal ==
    /\ showModal
    /\ geometryError = ""
    /\ showModal' = FALSE
    /\ last' = NoEdit(Last("confirm", 0))
    /\ UNCHANGED <<carriagewayWidth, geometry, geometryError>>
    /\ UNCHANGED <<formVars, locationVars, customVars, matcherVars>>

----------------------------------------------------------------------------
(***************************************************************************)
(* findClosest, the matcher behind /api/closest/.  The backend is not part *)
(* of the sources at hand; the matcher follows its written contract        *)
(* (section 4.2 of the design), with these documented choices: every       *)
(* weight is 1, each term is normalized by a fixed reference span, and a   *)
(* query with no field set returns the first catalog entry with            *)
(* confidence 0.  Wind speeds and temperatures are whole numbers here; a   *)
(* confidence is in hundredths of a percent (10000 is 100%).               *)
(***************************************************************************)

\* Longest catalog handed to findClosest.
MaxCatalog == 3

\* The ordered scale of seismic zones, I lowest.
ZoneOrder == <<"I", "II", "III", "IV", "V">>

KnownZone(zone) == \E i \in DOMAIN ZoneOrder : ZoneOrder[i] = zone
Rank(zone) == CHOOSE i \in DOMAIN ZoneOrder : ZoneOrder[i] = zone

\* The fixed scales the three terms are normalized by.
WindReferenceSpan == 25
ZoneReferenceSpan == Len(ZoneOrder) - 1
TempReferenceSpan == 50

\* All terms are kept as numerators over this common denominator.
TermScale == WindReferenceSpan * ZoneReferenceSpan * 2 * TempReferenceSpan

\* A wrong wind term: an absent wind speed is scored as the value zero.
WindTermAbsentAsZero(query, loc) ==
    LET windSpeed == IF query.windSpeed = <<>> THEN 0 ELSE query.windSpeed[1]
    IN  Abs(windSpeed - loc.windSpeed) * (TermScale \div WindReferenceSpan)

\* |query.windSpeed - loc.windSpeed| / referenceSpan, zero when absent
WindTerm(query, loc) ==
    IF query.windSpeed = <<>> THEN 0
    ELSE Abs(query.windSpeed[1] - loc.windSpeed) * (TermScale \div WindReferenceSpan)

\* |rank(query.zone) - rank(loc.zone)| over the length of the scale
ZoneTerm(query, loc) ==
    IF query.seismicZone = <<>> THEN 0
    ELSE Abs(Rank(query.seismicZone[1]) - Rank(loc.seismicZone))
             * (TermScale \div ZoneReferenceSpan)

\* One temperature-profile term: the mean of the two normalized differences.
TempTerm(query, loc) ==
    LET dMin == IF query.minTemp = <<>> THEN 0 ELSE Abs(query.minTemp[1] - loc.minTemp)
        dMax == IF query.maxTemp = <<>> THEN 0 ELSE Abs(query.maxTemp[1] - loc.maxTemp)
    IN  (dMin + dMax) * (TermScale \div (2 * TempReferenceSpan))

\* Number of terms the query supplies (the temperature pair is one term).
PresentTerms(query) ==
    (IF query.windSpeed = <<>> THEN 0 ELSE 1)
    + (IF query.seismicZone = <<>> THEN 0 ELSE 1)
    + (IF query.minTemp = <<>> /\ query.maxTemp = <<>> THEN 0 ELSE 1)

\* Dissimilarity = TermSum / TermDenominator.
TermSum(query, loc) == WindTerm(query, loc) + ZoneTerm(query, loc) + TempTerm(query, loc)
TermDenominator(query) == PresentTerms(query) * TermScale

Clamp(x, lo, hi) == IF x < lo THEN lo ELSE IF x > hi THEN hi ELSE x

\* A wrong transform: the confidence grows with the dissimilarity.
ConfidenceInverted(sum, den) == (100 * Unit * Clamp(sum, 0, den)) \div den

\* 100 * (1 - clamp(dissimilarity, 0, 1)), cut to hundredths of a percent
Confidence(sum, den) == (100 * Unit * (den - Clamp(sum, 0, den))) \div den

\* A wrong comparison: a later entry with an equal score replaces the best.
NotWorse(score, best) == score <= best

\* The scan keeps the best entry unless a later one is strictly closer.
Closer(score, best) == score < best

\* Linear scan of catalog[i..]; best is the index of the closest entry so far.
RECURSIVE Scan(_, _, _, _)
Scan(query, catalog, i, best) ==
    IF i > Len(catalog) THEN best
    ELSE Scan(query, catalog, i + 1,
              IF Closer(TermSum(query, catalog[i]), TermSum(query, catalog[best]))
              THEN i ELSE best)

\* The outcomes of findClosest; index is the position of the match in the
\* catalog, dissimilarity the numerator over TermDenominator.
Match(index, dissimilarity, confidence) ==
    [kind |-> "match", index |-> index, dissimilarity |-> dissimilarity,
     confidence |-> confidence, error |-> ""]
NoMatch ==
    [kind |-> "noMatch", index |-> 0, dissimilarity |-> 0, confidence |-> 0, error |-> ""]
Failure(error) ==
    [kind |-> "error", index |-> 0, dissimilarity |-> 0, confidence |-> 0, error |-> error]

UnknownSeismicZone(query) ==
    query.seismicZone # <<>> /\ ~KnownZone(query.seismicZone[1])

\* A wrong order of checks: the query is validated before the catalog is
\* looked at, so an empty catalog can yield an error.
ValidatedEmptyCatalog(query) ==
    IF UnknownSeismicZone(query) THEN Failure("UnknownSeismicZone") ELSE NoMatch

\* What findClosest returns for an empty catalog, whatever the query is.
EmptyCatalog(query) == NoMatch

FindClosest(query, catalog) ==
    IF Len(catalog) = 0 THEN EmptyCatalog(query)
    ELSE IF UnknownSeismicZone(query) THEN Failure("UnknownSeismicZone")
    ELSE IF PresentTerms(query) = 0 THEN Match(1, 0, 0)
    ELSE LET best == Scan(query, catalog, 2, 1)
             sum == TermSum(query, catalog[best])
         IN  Match(best, sum, Confidence(sum, TermDenominator(query)))

\* A catalog location.
Location(state, district, windSpeed, seismicZone, minTemp, maxTemp) ==
    [state |-> state, district |-> district, windSpeed |-> windSpeed,
     seismicZone |-> seismicZone, minTemp |-> minTemp, maxTemp |-> maxTemp]

\* Four locations: two with the same parameters, two that share a zone but
\* differ in wind speed and temperatures.
Locations ==
    { Location("Maharashtra", "Pune", 39, "II", 5, 40),
      Location("Maharashtra", "Satara", 39, "II", 5, 40),
      Location("Gujarat", "Surat", 47, "II", 0, 45),
      Location("Assam", "Dispur", 47, "IV", 5, 45) }

RECURSIVE SeqsUpTo(_, _)
SeqsUpTo(S, n) ==
    IF n = 0 THEN {<<>>}
    ELSE LET shorter == SeqsUpTo(S, n - 1)
         IN  shorter \cup {Append(s, x) : s \in shorter, x \in S}

Catalogs == SeqsUpTo(Locations, MaxCatalog)

Query(windSpeed, seismicZone, minTemp, maxTemp) ==
    [windSpeed |-> windSpeed, seismicZone |-> seismicZone,
     minTemp |-> minTemp, maxTemp |-> maxTemp]

\* Queries: each field absent or one of two values; "VI" is no zone.
Queries ==
    { Query(w, z, lo, hi) :
        w \in {<<>>, <<39>>, <<47>>},
        z \in {<<>>, <<"II">>, <<"IV">>, <<"VI">>},
        lo \in {<<>>, <<0>>, <<5>>},
        hi \in {<<>>, <<40>>, <<45>>} }

MatcherIdle ==
    /\ mQuery = Query(<<>>, <<>>, <<>>, <<>>)
    /\ mCatalog = <<>>
    /\ mResult = <<>>

\* findClosest(mQuery, mCatalog) returns.
ApplyFindClosest ==
    /\ mResult = <<>>
    /\ mResult' = <<FindClosest(mQuery, mCatalog)>>
    /\ UNCHANGED <<mQuery, mCatalog>>
    /\ UNCHANGED <<geometryVars, formVars, locationVars, customVars>>

----------------------------------------------------------------------------
(***************************************************************************)
(* The API base URL, the custom loading parameters dialog and the          *)
(* closest-location request.  A URL is a record of its parts: path is the  *)
(* sequence of its segments, slash says whether it ends with "/".          *)
(***************************************************************************)

\* Largest number of closest-location requests awaiting their response at
\* the same time.
MaxInFlight == 1

Url(scheme, host, port, path, slash) ==
    [scheme |-> scheme, host |-> host, port |-> port, path |-> path, slash |-> slash]

\* import.meta.env.VITE_API_BASE_URL (<<>> when not set) and window.location
\* (<<>> when there is no window).
Envs ==
    { [viteApiBaseUrl |-> v, window |-> w] :
        v \in { <<>>, <<Url("https:", "api.osdag.example", "", <<"api">>, TRUE)>> },
        w \in { <<>>,
                <<[protocol |-> "http:", hostname |-> ""]>>,
                <<[protocol |-> "https:", hostname |-> "bridge.example"]>> } }

\* FALLBACK of getDefaultBaseUrl
Fallback == Url("http:", "localhost", "8000", <<"api">>, FALSE)

getDefaultBaseUrl ==
    IF env.window = <<>> THEN Fallback
    ELSE LET protocol == IF env.window[1].protocol = "https:" THEN "https:" ELSE "http:"
             hostname == IF env.window[1].hostname = "" THEN "localhost"
                         ELSE env.window[1].hostname
         IN  Url(protocol, hostname, "8000", <<"api">>, FALSE)

\* url.replace(/\/$/, "")
normalizeBaseUrl(url) == [url EXCEPT !.slash = FALSE]

BASE_URL ==
    normalizeBaseUrl(IF env.viteApiBaseUrl # <<>> THEN env.viteApiBaseUrl[1]
                     ELSE getDefaultBaseUrl)

\* The URL fetchClosestLocation fetches: "http://localhost:8000/api/closest/".
ClosestUrl == Url("http:", "localhost", "8000", <<"api", "closest">>, TRUE)

\* The request fetchClosestLocation sends; body is the parsed JSON body.
ClosestRequest(params) ==
    [url |-> ClosestUrl,
     method |-> "POST",
     body |-> [wind_speed |-> params.windSpeed,
               seismic_zone |-> params.seismicZone,
               min_temp |-> params.minTemp,
               max_temp |-> params.maxTemp]]

\* What is typed into the three number fields of the dialog (<<>> is the
\* empty field) and the options picked in the zone select.
WindSpeedTexts == {<<>>, <<47>>}
MinTempTexts == {<<>>, <<5>>}
MaxTempTexts == {<<>>, <<45>>}
ZoneOptions == {"", "IV"}

\* Number(e.target.value) of a number field: Number("") is 0.
NumberOf(text) == IF text = <<>> THEN 0 ELSE text[1]

EmptyFields == [windSpeed |-> <<>>, minTemp |-> <<>>, maxTemp |-> <<>>]

\* The catalogs the backend may hold.
BackendCatalogs ==
    { <<>>,
      << Location("Maharashtra", "Pune", 39, "II", 5, 40),
         Location("Assam", "Dispur", 47, "IV", 5, 45) >> }

\* The query the backend reads from a request body: null and "" are absent.
QueryOf(body) ==
    Query(body.wind_speed,
          IF body.seismic_zone = "" THEN <<>> ELSE <<body.seismic_zone>>,
          body.min_temp, body.max_temp)

\* The JSON the response carries, as closestLocation holds it: the match, or
\* null when there is none (the select offers known zones only, so no error
\* is answered).
ResponseData(result, catalog) ==
    CASE result.kind = "match" ->
            <<[state |-> catalog[result.index].state,
               district |-> catalog[result.index].district,
               confidence |-> result.confidence]>>
      [] result.kind = "noMatch" -> <<>>

\* The dialog is rendered, with its fields.
CustomModalShown == showCustomModal /\ locationMode = "custom"

CustomIdle ==
    /\ locationMode = "null"
    /\ showCustomModal = FALSE
    /\ manualParams = [windSpeed |-> <<>>, seismicZone |-> "",
                       minTemp |-> <<>>, maxTemp |-> <<>>]
    /\ fields = EmptyFields
    /\ closestLocation = <<>>
    /\ inFlight = {}

\* The number fields are uncontrolled inputs: they are gone when the dialog
\* is not rendered and empty when it is rendered again.
Render(mode, show) ==
    fields' = IF show /\ mode = "custom" THEN fields ELSE EmptyFields

\* onChange of the "Enter Location Name" checkbox.
ToggleLocation ==
    /\ locationMode' = IF locationMode = "location" THEN "null" ELSE "location"
    /\ Render(locationMode', showCustomModal)
    /\ UNCHANGED <<showCustomModal, manualParams, closestLocation, inFlight>>
    /\ UNCHANGED <<env, backendCatalog, geometryVars, formVars, locationVars, matcherVars>>

\* onChange of the "Tabulate Custom Loading Parameters" checkbox.
ToggleCustom ==
    /\ IF locationMode = "custom"
       THEN locationMode' = "null" /\ showCustomModal' = FALSE
       ELSE locationMode' = "custom" /\ showCustomModal' = TRUE
    /\ Render(locationMode', showCustomModal')
    /\ UNCHANGED <<manualParams, closestLocation, inFlight>>
    /\ UNCHANGED <<env, backendCatalog, geometryVars, formVars, locationVars, matcherVars>>

\* onChange of a field of the dialog: setManualParams(p => ({...p, ...})).
SetParam(params, shown) ==
    /\ CustomModalShown
    /\ manualParams' = params
    /\ fields' = shown
    /\ UNCHANGED <<locationMode, showCustomModal, closestLocation, inFlight>>
    /\ UNCHANGED <<env, backendCatalog, geometryVars, formVars, locationVars, matcherVars>>

SetWindSpeed ==
    \E text \in WindSpeedTexts \ {fields.windSpeed} :
        SetParam([manualParams EXCEPT !.windSpeed = <<NumberOf(text)>>],
                 [fields EXCEPT !.windSpeed = text])

SetSeismicZone ==
    \E zone \in ZoneOptions \ {manualParams.seismicZone} :
        SetParam([manualParams EXCEPT !.seismicZone = zone], fields)

SetMinTemp ==
    \E text \in MinTempTexts \ {fields.minTemp} :
        SetParam([manualParams EXCEPT !.minTemp = <<NumberOf(text)>>],
                 [fields EXCEPT !.minTemp = text])

SetMaxTemp ==
    \E text \in MaxTempTexts \ {fields.maxTemp} :
        SetParam([manualParams EXCEPT !.maxTemp = <<NumberOf(text)>>],
                 [fields EXCEPT !.maxTemp = text])

\* onClick of Cancel.
CancelCustom ==
    /\ CustomModalShown
    /\ showCustomModal' = FALSE
    /\ Render(locationMode, FALSE)
    /\ UNCHANGED <<locationMode, manualParams, closestLocation, inFlight>>
    /\ UNCHANGED <<env, backendCatalog, geometryVars, formVars, locationVars, matcherVars>>

\* onClick of Apply: the dialog closes and fetchClosestLocation sends its
\* request; the handler then waits for the response.
ApplyCustom ==
    /\ CustomModalShown
    /\ Cardinality(inFlight \cup {ClosestRequest(manualParams)}) <= MaxInFlight
    /\ showCustomModal' = FALSE
    /\ Render(locationMode, FALSE)
    /\ inFlight' = inFlight \cup {ClosestRequest(manualParams)}
    /\ UNCHANGED <<locationMode, manualParams, closestLocation>>
    /\ UNCHANGED <<env, backendCatalog, geometryVars, formVars, locationVars, matcherVars>>

\* fetchClosestLocation resumes with the response of one of its requests:
\* setClosestLocation(data).
ReceiveClosest ==
    \E request \in inFlight :
        /\ closestLocation' =
               ResponseData(FindClosest(QueryOf(request.body), backendCatalog),
                            backendCatalog)
        /\ inFlight' = inFlight \ {request}
        /\ UNCHANGED <<locationMode, showCustomModal, manualParams, fields>>
        /\ UNCHANGED <<env, backendCatalog, geometryVars, formVars, locationVars, matcherVars>>

\* A request fails (fetch rejects): the handler ends without a state change.
FailClosest ==
    \E request \in inFlight :
        /\ inFlight' = inFlight \ {request}
        /\ UNCHANGED <<locationMode, showCustomModal, manualParams, fields,
                       closestLocation>>
        /\ UNCHANGED <<env, backendCatalog, geometryVars, formVars, locationVars, matcherVars>>

----------------------------------------------------------------------------
----------------------------------------------------------------------------
(***************************************************************************)
(* The structure type, the geometric details (span, carriageway width,     *)
(* skew angle) with their validation on blur, and Validate & Proceed.      *)
(* Numbers are hundredths, as in the geometry dialog.  A number input      *)
(* hands "" to onChange for text that is no number, so no field holds NaN  *)
(* and the NaN branch of validateSkewAngle is never taken.                 *)
(***************************************************************************)

\* The options of the structure type select.
StructureTypes == {"", "Highway", "Other"}

\* Values typed into the span field: 19.99, 20, 30, 45, 45.01.
SpanInputs == {1999, 2000, 3000, 4500, 4501}

\* Values typed into the carriageway field: 4.24, 4.25, 10, 23.99, 24, 30.
FormWidthInputs == {424, 425, 1000, 2399, 2400, 3000}

\* Values typed into the skew angle field: -15.01, -15, 0, 15, 15.01.
SkewInputs == {0 - 1501, 0 - 1500, 0, 1500, 1501}

ErrSpan == "Span must be between 20 m and 45 m"
ErrCarriageway == "Carriageway width must be at least 4.25 m"
WarnSkew == "Detailed analysis required as per IRC"

\* A wrong range: the bounds 20 and 45 themselves are refused.
validateSpanOpen(value) ==
    IF value = <<>> THEN ""
    ELSE IF value[1] <= 20 * Unit \/ value[1] >= 45 * Unit THEN ErrSpan
    ELSE ""

validateSpan(value) ==
    IF value = <<>> THEN ""
    ELSE IF value[1] < 20 * Unit \/ value[1] > 45 * Unit THEN ErrSpan
    ELSE ""

validateCarriagewayWidth(width) ==
    IF width = <<>> THEN ""
    ELSE IF width[1] < 425 * (Unit \div 100) THEN ErrCarriageway
    ELSE ""

validateSkewAngle(value) ==
    IF value = <<>> THEN [error |-> "", warning |-> ""]
    ELSE IF Abs(value[1]) <= 15 * Unit THEN [error |-> "", warning |-> ""]
    ELSE [error |-> "", warning |-> WarnSkew]

hasBlockingErrors ==
    \/ spanError # ""
    \/ carriagewayError # ""
    \/ skewError # ""
    \/ structureType = "Other"

FormIdle ==
    /\ structureType = ""
    /\ span = <<>>
    /\ skewAngle = <<>>
    /\ spanError = ""
    /\ carriagewayError = ""
    /\ skewError = ""
    /\ skewWarning = ""

\* A handler of the form ran; the geometry dialog is not touched.
FormStep(op) ==
    /\ last' = Last(op, 0)
    /\ UNCHANGED <<carriagewayWidth, geometry, geometryError, showModal>>
    /\ UNCHANGED <<locationVars, customVars, matcherVars>>

\* onChange of the structure type select.
SetStructureType ==
    \E type \in StructureTypes \ {structureType} :
        /\ structureType' = type
        /\ FormStep("setStructureType")
        /\ UNCHANGED <<span, skewAngle, spanError, carriagewayError, skewError, skewWarning>>

\* onChange of the span field, disabled for structure type "Other".
SetSpan ==
    \E v \in {<<>>} \cup {<<s>> : s \in SpanInputs} :
        /\ structureType # "Other"
        /\ span' = v
        /\ FormStep("setSpan")
        /\ UNCHANGED <<structureType, skewAngle, spanError, carriagewayError,
                       skewError, skewWarning>>

\* onChange of the carriageway width field, with the widths of this part.
SetFormCarriagewayWidth ==
    \E v \in {<<>>} \cup {<<w>> : w \in FormWidthInputs} : SetCarriagewayWidthTo(v)

\* onChange of the skew angle field, disabled for structure type "Other".
SetSkewAngle ==
    \E v \in {<<>>} \cup {<<a>> : a \in SkewInputs} :
        /\ structureType # "Other"
        /\ skewAngle' = v
        /\ FormStep("setSkewAngle")
        /\ UNCHANGED <<structureType, span, spanError, carriagewayError,
                       skewError, skewWarning>>

\* onBlur of the three fields; a disabled field is not left.
handleSpanBlur ==
    /\ structureType # "Other"
    /\ spanError' = validateSpan(span)
    /\ FormStep("handleSpanBlur")
    /\ UNCHANGED <<structureType, span, skewAngle, carriagewayError, skewError, skewWarning>>

handleCarriagewayBlur ==
    /\ structureType # "Other"
    /\ carriagewayError' = validateCarriagewayWidth(carriagewayWidth)
    /\ FormStep("handleCarriagewayBlur")
    /\ UNCHANGED <<structureType, span, skewAngle, spanError, skewError, skewWarning>>

handleSkewBlur ==
    /\ structureType # "Other"
    /\ skewError' = validateSkewAngle(skewAngle).error
    /\ skewWarning' = validateSkewAngle(skewAngle).warning
    /\ FormStep("handleSkewBlur")
    /\ UNCHANGED <<structureType, span, skewAngle, spanError, carriagewayError>>

\* onClick of Validate & Proceed, disabled={hasBlockingErrors}:
\* runBackendValidation, which has an empty body.
runBackendValidation ==
    /\ ~hasBlockingErrors
    /\ FormStep("runBackendValidation")
    /\ UNCHANGED formVars

----------------------------------------------------------------------------
(***************************************************************************)
(* The state and district selects.  Each handler sends its request and     *)
(* waits; the responses of the requests in flight arrive in any order.     *)
(* The backend answers every request, from the tables below.               *)
(***************************************************************************)

\* Largest number of state, district and detail requests awaiting their
\* response at the same time.
MaxPending == 2

\* The tables of the backend: two states, three districts.
BackendStates ==
    << [id |-> 1, name |-> "Maharashtra"], [id |-> 2, name |-> "Assam"] >>

DistrictsOf(stateId) ==
    CASE stateId = 1 -> << [id |-> 11, name |-> "Pune"], [id |-> 12, name |-> "Satara"] >>
      [] stateId = 2 -> << [id |-> 21, name |-> "Dispur"] >>
      [] OTHER -> <<>>

DistrictIds == {11, 12, 21}

\* The parameters setWindSpeed, setSeismicZone, setMinTemp and setMaxTemp
\* store from the details of a district.
DetailsOf(districtId) ==
    CASE districtId = 11 -> [windSpeed |-> <<39>>, seismicZone |-> "III",
                             minTemp |-> <<5>>, maxTemp |-> <<40>>]
      [] districtId = 12 -> [windSpeed |-> <<39>>, seismicZone |-> "IV",
                             minTemp |-> <<3>>, maxTemp |-> <<41>>]
      [] districtId = 21 -> [windSpeed |-> <<50>>, seismicZone |-> "V",
                             minTemp |-> <<8>>, maxTemp |-> <<37>>]

\* setWindSpeed(null); setSeismicZone(""); setMinTemp(null); setMaxTemp(null)
NoParams ==
    [windSpeed |-> <<>>, seismicZone |-> "", minTemp |-> <<>>, maxTemp |-> <<>>]

\* The requests of getStates, getDistricts and getDistrictDetails; id is
\* the state or district asked for.
Endpoint(segments) == [BASE_URL EXCEPT !.path = @ \o segments, !.slash = TRUE]

getStates ==
    [kind |-> "states", id |-> 0, url |-> Endpoint(<<"states">>), method |-> "GET"]
getDistricts(stateId) ==
    [kind |-> "districts", id |-> stateId, url |-> Endpoint(<<"districts">>),
     method |-> "GET"]
getDistrictDetails(districtId) ==
    [kind |-> "details", id |-> districtId,
     url |-> Endpoint(<<"districts", ToString(districtId), "details">>),
     method |-> "GET"]

\* A request is sent unless too many are in flight already.
Send(request) ==
    /\ Cardinality(pending \cup {request}) <= MaxPending
    /\ pending' = pending \cup {request}

\* Number(e.target.value) of a select: an option's id, 0 for the "" option.
OptionValues(options) == {0} \cup {options[i].id : i \in DOMAIN options}

\* The id a select holds: `selected ?? ""`, as a number.
Held(selected) == IF selected = <<>> THEN 0 ELSE selected[1]

\* A selection that is neither null nor 0.
Truthy(selected) == selected # <<>> /\ selected[1] # 0

\* After the first render and its effect: getStates is in flight.
LocationStart ==
    /\ states = <<>>
    /\ districts = <<>>
    /\ selectedState = <<>>
    /\ selectedDistrict = <<>>
    /\ autoParams = NoParams
    /\ pending = {getStates}

\* The page before its effect has run.
LocationIdle ==
    /\ states = <<>>
    /\ districts = <<>>
    /\ selectedState = <<>>
    /\ selectedDistrict = <<>>
    /\ autoParams = NoParams
    /\ pending = {}

\* getStates().then(setStates)
ReceiveStates ==
    \E request \in pending :
        /\ request.kind = "states"
        /\ states' = BackendStates
        /\ pending' = pending \ {request}
        /\ UNCHANGED <<districts, selectedState, selectedDistrict, autoParams>>
        /\ UNCHANGED <<geometryVars, formVars, customVars, matcherVars>>

\* onChange of the state select, up to the await.
handleStateChange ==
    \E stateId \in OptionValues(states) \ {Held(selectedState)} :
        /\ locationMode = "location"
        /\ selectedState' = <<stateId>>
        /\ selectedDistrict' = <<>>
        /\ autoParams' = NoParams
        /\ Send(getDistricts(stateId))
        /\ UNCHANGED <<states, districts>>
        /\ UNCHANGED <<geometryVars, formVars, customVars, matcherVars>>

\* handleStateChange resumes: setDistricts(districtsData).
ReceiveDistricts ==
    \E request \in pending :
        /\ request.kind = "districts"
        /\ districts' = DistrictsOf(request.id)
        /\ pending' = pending \ {request}
        /\ UNCHANGED <<states, selectedState, selectedDistrict, autoParams>>
        /\ UNCHANGED <<geometryVars, formVars, customVars, matcherVars>>

\* onChange of the district select (disabled={!selectedState}), up to the
\* await.
handleDistrictChange ==
    \E districtId \in OptionValues(districts) \ {Held(selectedDistrict)} :
        /\ locationMode = "location"
        /\ Truthy(selectedState)
        /\ selectedDistrict' = <<districtId>>
        /\ Send(getDistrictDetails(districtId))
        /\ UNCHANGED <<states, districts, selectedState, autoParams>>
        /\ UNCHANGED <<geometryVars, formVars, customVars, matcherVars>>

\* handleDistrictChange resumes: the four setters, from the details.  The
\* answer for the id 0 of the "" option holds no details, and reading it
\* throws before any setter runs.
ReceiveDetails ==
    \E request \in pending :
        /\ request.kind = "details"
        /\ autoParams' = IF request.id \in DistrictIds THEN DetailsOf(request.id)
                         ELSE autoParams
        /\ pending' = pending \ {request}
        /\ UNCHANGED <<states, districts, selectedState, selectedDistrict>>
        /\ UNCHANGED <<geometryVars, formVars, customVars, matcherVars>>

\* The geometry dialog alone.
Init ==
    /\ GeometryInit
    /\ FormIdle
    /\ LocationIdle
    /\ CustomIdle
    /\ env = [viteApiBaseUrl |-> <<>>, window |-> <<>>]
    /\ backendCatalog = <<>>
    /\ MatcherIdle

Next ==
    \/ SetCarriagewayWidth
    \/ OpenGeometryModal
    \/ UpdateFromSpacing
    \/ UpdateFromGirders
    \/ UpdateFromOverhang
    \/ CancelModal
    \/ ConfirmModal

Spec == Init /\ [][Next]_vars

\* The custom loading parameters dialog, under every environment.
InitCustom ==
    /\ GeometryInit
    /\ FormIdle
    /\ LocationIdle
    /\ CustomIdle
    /\ env \in Envs
    /\ backendCatalog \in BackendCatalogs
    /\ MatcherIdle

NextCustom ==
    \/ ToggleLocation
    \/ ToggleCustom
    \/ SetWindSpeed
    \/ SetSeismicZone
    \/ SetMinTemp
    \/ SetMaxTemp
    \/ CancelCustom
    \/ ApplyCustom
    \/ ReceiveClosest
    \/ FailClosest

SpecCustom == InitCustom /\ [][NextCustom]_vars

\* findClosest applied to every query and catalog.
InitMatcher ==
    /\ GeometryInit
    /\ FormIdle
    /\ LocationIdle
    /\ CustomIdle
    /\ env = [viteApiBaseUrl |-> <<>>, window |-> <<>>]
    /\ backendCatalog = <<>>
    /\ mQuery \in Queries
    /\ mCatalog \in Catalogs
    /\ mResult = <<>>

NextMatcher == ApplyFindClosest

SpecMatcher == InitMatcher /\ [][NextMatcher]_vars

\* The structure type, the geometric details and Validate & Proceed.
InitForm ==
    /\ GeometryInit
    /\ FormIdle
    /\ LocationIdle
    /\ CustomIdle
    /\ env = [viteApiBaseUrl |-> <<>>, window |-> <<>>]
    /\ backendCatalog = <<>>
    /\ MatcherIdle

NextForm ==
    \/ SetStructureType
    \/ SetSpan
    \/ SetFormCarriagewayWidth
    \/ SetSkewAngle
    \/ handleSpanBlur
    \/ handleCarriagewayBlur
    \/ handleSkewBlur
    \/ runBackendValidation

SpecForm == InitForm /\ [][NextForm]_vars

\* The location mode with the state and district selects.
InitLocation ==
    /\ GeometryInit
    /\ FormIdle
    /\ CustomIdle
    /\ env \in Envs
    /\ backendCatalog = <<>>
    /\ LocationStart
    /\ MatcherIdle

NextLocation ==
    \/ ToggleLocation
    \/ ReceiveStates
    \/ handleStateChange
    \/ ReceiveDistricts
    \/ handleDistrictChange
    \/ ReceiveDetails

SpecLocation == InitLocation /\ [][NextLocation]_vars

----------------------------------------------------------------------------
\* Vocabulary of the properties.

EditOps == {"updateFromSpacing", "updateFromGirders", "updateFromOverhang"}

\* The last handler was an edit handler that got past its first guard.
EditRan ==
    /\ last.op \in EditOps
    /\ last.pre # <<>>
    /\ carriagewayWidth # <<>>

\* The last handler was openGeometryModal with a numeric carriageway width.
Initialized == last.op = "openGeometryModal" /\ carriagewayWidth # <<>>

Accepted == EditRan /\ geometryError = ""
Rejected == EditRan /\ geometryError # ""

\* The stored triple is the one initialize or an accepted edit has just stored.
JustStored == Initialized \/ Accepted

\* The carriageway width passes validateCarriagewayWidth (at least 4.25).
ValidatedWidth == carriagewayWidth # <<>> /\ carriagewayWidth[1] >= 425

\* Overall width of the current carriageway width (which no edit changes).
W == OverallWidth(carriagewayWidth[1])

\* n is the number floor(p/q), q > 0: an integer k with k <= p/q < k + 1.
IsFloorOf(n, p, q) ==
    /\ n % Unit = 0
    /\ LET k == n \div Unit IN k * q <= p /\ p < (k + 1) * q

\* n is p/q rounded to the nearest integer, q > 0: k - 1/2 <= p/q < k + 1/2.
IsNearestIntOf(n, p, q) ==
    /\ n % Unit = 0
    /\ LET k == n \div Unit
       IN  (2 * k - 1) * q <= 2 * p /\ 2 * p < (2 * k + 1) * q

\* v is p/q rounded to one decimal, q > 0: a whole number of tenths t with
\* |p/q - t/10| <= 1/20, the tie going away from zero.
IsRound1Of(v, p, q) ==
    /\ IsFinite(v)
    /\ v % (Unit \div 10) = 0
    /\ LET t == v \div (Unit \div 10)
       IN  IF p >= 0
           THEN (2 * t - 1) * q <= 20 * p /\ 20 * p < (2 * t + 1) * q
           ELSE (2 * t - 1) * q < 20 * p /\ 20 * p <= (2 * t + 1) * q

\* The values the properties expect, picked by those characterisations.
NearestInt(p, q) ==
    CHOOSE n \in {(FloorDiv(p, q) + d) * Unit : d \in 0..1} : IsNearestIntOf(n, p, q)
RoundedTo1(p, q) ==
    LET t0 == FloorDiv(10 * p, q)
    IN  CHOOSE v \in {(t0 + d) * (Unit \div 10) : d \in 0..1} : IsRound1Of(v, p, q)

\* overallWidth - spacing * girders, as the fraction num / (Unit * Unit)
WidthLeftNum(overallWidth, spacing, girders) == overallWidth * Unit - spacing * girders

----------------------------------------------------------------------------
\* C1: after initialize or any accepted edit the stored triple satisfies
\* overhang = round1(overallWidth - spacing * girders).  Stated for the
\* carriageway widths the page validates, where it fails all the same.
C1_OverhangIsRoundedRemainder ==
    (JustStored /\ ValidatedWidth) =>
        /\ IsFinite(geometry[1].spacing)
        /\ IsRound1Of(geometry[1].overhang,
                      WidthLeftNum(W, geometry[1].spacing, geometry[1].girders),
                      Unit * Unit)

\* C2: in every triple stored by initialize or an accepted edit, for an overall
\* width above 0, girders is an integer and at least 1.  Stated for the
\* carriageway widths the page validates, where it fails all the same.
C2_GirdersPositiveInteger ==
    (JustStored /\ ValidatedWidth /\ W > 0) =>
        /\ geometry[1].girders % Unit = 0
        /\ geometry[1].girders >= Unit

\* C3: in every triple stored by initialize or an accepted edit,
\* 0 <= overhang < overallWidth.  Stated for the carriageway widths the page
\* validates, where it fails all the same.
C3_OverhangInRange ==
    (JustStored /\ ValidatedWidth) => (0 <= geometry[1].overhang /\ geometry[1].overhang < W)

\* C4: in every triple stored by initialize or an accepted edit, spacing is a
\* finite number above 0.  Stated for the carriageway widths the page
\* validates, where it fails all the same.
C4_SpacingFinitePositive ==
    (JustStored /\ ValidatedWidth) => (IsFinite(geometry[1].spacing) /\ geometry[1].spacing > 0)

\* C5: a rejected edit leaves all three fields of the triple as they were and
\* reports an error; updateFromSpacing(13.0) at overall width 12.5 is rejected.
C5_RejectKeepsTriple ==
    /\ Rejected =>
          /\ geometry = last.pre
          /\ geometryError \in
                 {ErrInvalidSpacing, ErrInvalidGirders, ErrInvalidOverhang, ErrConstraint}
    /\ (EditRan /\ last.op = "updateFromSpacing" /\ last.arg = 13 * Unit
            /\ W = 1250)
          => (geometryError = ErrInvalidSpacing /\ geometry = last.pre)

C5_Witness ==
    /\ EditRan /\ last.op = "updateFromSpacing" /\ last.arg = 13 * Unit
    /\ W = 1250
    /\ last.pre = <<Geometry(250, 4 * Unit, 250)>>
    /\ geometry = <<Geometry(250, 4 * Unit, 250)>>
    /\ geometryError = ErrInvalidSpacing

\* C6: updateFromSpacing(s) applied again with the same s, right after it was
\* applied, leaves the triple of the first application.
C6_SpacingIdempotent ==
    (showModal /\ last.op = "updateFromSpacing") =>
        updateFromSpacing(last.arg).geometry = geometry

\* C7: initialize stores spacing 2.5, girders floor((overallWidth - 2) / 2.5)
\* and overhang round1(overallWidth - girders * 2.5), overallWidth being
\* carriagewayWidth + 5; carriagewayWidth 7.5 gives (2.5, 4, 2.5).
C7_Initialize ==
    Initialized =>
        /\ geometry # <<>>
        /\ geometry[1].spacing = 250
        /\ IsFloorOf(geometry[1].girders, (carriagewayWidth[1] + 500) - 200, 250)
        /\ IsRound1Of(geometry[1].overhang,
                      (carriagewayWidth[1] + 500) * Unit - geometry[1].girders * 250,
                      Unit * Unit)
        /\ carriagewayWidth[1] = 750 => geometry[1] = Geometry(250, 400, 250)

C7_Witness ==
    /\ Initialized
    /\ carriagewayWidth = <<750>>
    /\ geometry = <<Geometry(250, 400, 250)>>
    /\ showModal

\* C8: updateFromSpacing(s) fails with "Invalid spacing" exactly when s <= 0 or
\* s >= overallWidth; otherwise girders = round((overallWidth - overhang) / s)
\* and overhang = round1(overallWidth - girders * s), it fails with "Geometry
\* constraints violated" exactly when that overhang is negative, and otherwise
\* stores (s, girders, overhang).
C8_UpdateFromSpacing ==
    (EditRan /\ last.op = "updateFromSpacing") =>
        LET s == last.arg
        IN  IF s <= 0 \/ s >= W
            THEN geometryError = ErrInvalidSpacing /\ geometry = last.pre
            ELSE LET g == NearestInt(W - last.pre[1].overhang, s)
                     o == RoundedTo1(WidthLeftNum(W, s, g), Unit * Unit)
                 IN  IF o < 0
                     THEN geometryError = ErrConstraint /\ geometry = last.pre
                     ELSE geometryError = "" /\ geometry = <<Geometry(s, g, o)>>

\* from (2.5, 4, 2.5) at overall width 12.5, spacing 6 stores (6, 2, 0.5):
\* 10 / 6 rounds up to 2 girders.
C8_Witness ==
    /\ EditRan /\ last.op = "updateFromSpacing" /\ last.arg = 600
    /\ W = 1250
    /\ last.pre = <<Geometry(250, 400, 250)>>
    /\ geometry = <<Geometry(600, 200, 50)>>
    /\ geometryError = ""

\* C9: updateFromGirders(n) fails with "Number of girders must be positive"
\* exactly when n <= 0; otherwise it keeps spacing, overhang =
\* round1(overallWidth - spacing * n), it fails with "Geometry constraints
\* violated" exactly when overhang < 0 or overhang >= overallWidth, and
\* otherwise stores (spacing, n, overhang); overhang 0.0 is accepted.
C9_UpdateFromGirders ==
    (EditRan /\ last.op = "updateFromGirders") =>
        LET n == last.arg
            s == last.pre[1].spacing
        IN  IF n <= 0
            THEN geometryError = ErrInvalidGirders /\ geometry = last.pre
            ELSE IF ~IsFinite(s)
            THEN geometryError = ErrConstraint /\ geometry = last.pre
            ELSE LET o == RoundedTo1(WidthLeftNum(W, s, n), Unit * Unit)
                 IN  IF o < 0 \/ o >= W
                     THEN geometryError = ErrConstraint /\ geometry = last.pre
                     ELSE geometryError = "" /\ geometry = <<Geometry(s, n, o)>>

\* from (2.5, 4, 2.5) at overall width 12.5, n = 5 stores overhang 0.0.
C9_Witness ==
    /\ EditRan /\ last.op = "updateFromGirders" /\ last.arg = 5 * Unit
    /\ W = 1250
    /\ last.pre = <<Geometry(250, 400, 250)>>
    /\ geometry = <<Geometry(250, 500, 0)>>
    /\ geometryError = ""

\* C10: updateFromOverhang(o) fails with "Invalid overhang" exactly when o < 0
\* or o >= overallWidth; otherwise it keeps girders, spacing =
\* round1((overallWidth - o) / girders) (Infinity for a zero girder count), it
\* fails with "Geometry constraints violated" exactly when that spacing is <= 0,
\* and otherwise stores (spacing, girders, o).
C10_UpdateFromOverhang ==
    (EditRan /\ last.op = "updateFromOverhang") =>
        LET o == last.arg
            g == last.pre[1].girders
        IN  IF o < 0 \/ o >= W
            THEN geometryError = ErrInvalidOverhang /\ geometry = last.pre
            ELSE LET s == IF g = 0 THEN Infinity
                          ELSE IF g > 0 THEN RoundedTo1(W - o, g)
                          ELSE RoundedTo1(o - W, 0 - g)
                 IN  IF s <= 0
                     THEN geometryError = ErrConstraint /\ geometry = last.pre
                     ELSE geometryError = "" /\ geometry = <<Geometry(s, g, o)>>

\* from (2.5, 3, 5.0) at overall width 12.5, overhang 0 stores spacing 4.2.
C10_Witness ==
    /\ EditRan /\ last.op = "updateFromOverhang" /\ last.arg = 0
    /\ W = 1250
    /\ last.pre = <<Geometry(250, 300, 500)>>
    /\ geometry = <<Geometry(420, 300, 0)>>
    /\ geometryError = ""

----------------------------------------------------------------------------
\* C11 as stated: every accepted edit leaves one named field as it was:
\* updateFromSpacing the overhang, updateFromGirders the spacing,
\* updateFromOverhang the girders.
C11_EachEditHoldsItsField ==
    (Accepted /\ ValidatedWidth) =>
        /\ last.op = "updateFromSpacing" => geometry[1].overhang = last.pre[1].overhang
        /\ last.op = "updateFromGirders" => geometry[1].spacing = last.pre[1].spacing
        /\ last.op = "updateFromOverhang" => geometry[1].girders = last.pre[1].girders

\* C11, amended: an accepted updateFromGirders leaves the spacing as it was
\* and an accepted updateFromOverhang leaves the girders as they were, each
\* storing the edited value; updateFromSpacing holds no field.
C11_GirdersAndOverhangEditsHoldOneField ==
    Accepted =>
        /\ last.op = "updateFromGirders" =>
              /\ geometry[1].spacing = last.pre[1].spacing
              /\ geometry[1].girders = last.arg
        /\ last.op = "updateFromOverhang" =>
              /\ geometry[1].girders = last.pre[1].girders
              /\ geometry[1].overhang = last.arg

\* An accepted girder edit that moved the overhang and kept the spacing.
C11_Witness ==
    /\ Accepted
    /\ last.op = "updateFromGirders"
    /\ geometry[1].girders # last.pre[1].girders
    /\ geometry[1].overhang # last.pre[1].overhang

\* C12: whenever the carriageway width changes or the dialog is dismissed,
\* the stored triple is discarded or reset to the default layout of the
\* current width.
C12_TripleResetOnWidthChangeOrDismiss ==
    [][ (/\ ValidatedWidth
         /\ carriagewayWidth' # carriagewayWidth \/ (showModal /\ ~showModal')) =>
            \/ geometry' = <<>>
            \/ /\ carriagewayWidth' # <<>>
               /\ geometry' = <<DefaultGeometry(carriagewayWidth'[1])>> ]_vars

\* C13: updateFromGirders(n) and updateFromOverhang(o) are idempotent: after
\* either has run with a value, running it again with the same value leaves
\* the triple as it is.
C13_GirdersAndOverhangIdempotent ==
    /\ (showModal /\ last.op = "updateFromGirders") =>
           updateFromGirders(last.arg).geometry = geometry
    /\ (showModal /\ last.op = "updateFromOverhang") =>
           updateFromOverhang(last.arg).geometry = geometry

\* An accepted girder edit that changed the triple, with the dialog open.
C13_Witness ==
    /\ showModal
    /\ Accepted
    /\ last.op = "updateFromGirders"
    /\ geometry # last.pre

----------------------------------------------------------------------------
\* C14: a field of the query the user has not set is carried as absent,
\* never as the value zero: while the dialog shows a number field empty, the
\* parameter it feeds (and so the request body Apply sends) is null.
C14_UnsetFieldIsAbsent ==
    CustomModalShown =>
        /\ fields.windSpeed = <<>> => manualParams.windSpeed = <<>>
        /\ fields.minTemp = <<>> => manualParams.minTemp = <<>>
        /\ fields.maxTemp = <<>> => manualParams.maxTemp = <<>>

\* Vocabulary of the properties of findClosest.
Called == mResult # <<>>
Result == mResult[1]

\* The query names every field and the location has exactly those values.
ExactlyMatches(query, loc) ==
    /\ query.windSpeed = <<loc.windSpeed>>
    /\ query.seismicZone = <<loc.seismicZone>>
    /\ query.minTemp = <<loc.minTemp>>
    /\ query.maxTemp = <<loc.maxTemp>>

\* The query names a known seismic zone and nothing else.
OnlyZone(query) ==
    /\ query.windSpeed = <<>>
    /\ query.minTemp = <<>>
    /\ query.maxTemp = <<>>
    /\ query.seismicZone # <<>>
    /\ KnownZone(query.seismicZone[1])

\* Distance on the ordered zone scale.
ZoneDistance(query, loc) == Abs(Rank(query.seismicZone[1]) - Rank(loc.seismicZone))

\* C15: when the query equals some catalog entry on all fields, findClosest
\* returns the first such entry, with dissimilarity 0 and confidence 100.
C15_ExactMatchReturned ==
    (Called /\ \E i \in DOMAIN mCatalog : ExactlyMatches(mQuery, mCatalog[i])) =>
        /\ Result.kind = "match"
        /\ ExactlyMatches(mQuery, mCatalog[Result.index])
        /\ \A j \in 1..(Result.index - 1) : ~ExactlyMatches(mQuery, mCatalog[j])
        /\ Result.dissimilarity = 0
        /\ Result.confidence = 100 * Unit

\* The second of three entries is returned: the first differs from the
\* query, the third equals it as well.
C15_Witness ==
    /\ Called
    /\ Len(mCatalog) = 3
    /\ ~ExactlyMatches(mQuery, mCatalog[1])
    /\ ExactlyMatches(mQuery, mCatalog[2])
    /\ ExactlyMatches(mQuery, mCatalog[3])
    /\ Result.index = 2

\* C16: the entry findClosest returns has the minimal dissimilarity, and
\* every entry before it in the catalog has a strictly larger one.
C16_FirstOfTheClosestWins ==
    (Called /\ Result.kind = "match") =>
        \A j \in DOMAIN mCatalog :
            /\ TermSum(mQuery, mCatalog[j]) >= TermSum(mQuery, mCatalog[Result.index])
            /\ j < Result.index =>
                  TermSum(mQuery, mCatalog[j]) > TermSum(mQuery, mCatalog[Result.index])

\* Two entries tie at a minimal dissimilarity above 0, after a worse first
\* entry; the earlier of the two is returned.
C16_Witness ==
    /\ Called
    /\ Len(mCatalog) = 3
    /\ Result.kind = "match"
    /\ Result.index = 2
    /\ Result.dissimilarity > 0
    /\ TermSum(mQuery, mCatalog[3]) = TermSum(mQuery, mCatalog[2])
    /\ mCatalog[3] # mCatalog[2]

C18_OnlyZoneScoredOnZoneAlone ==
    (Called /\ OnlyZone(mQuery) /\ mCatalog # <<>>) =>
        /\ \A i, j \in DOMAIN mCatalog :
              mCatalog[i].seismicZone = mCatalog[j].seismicZone =>
                  TermSum(mQuery, mCatalog[i]) = TermSum(mQuery, mCatalog[j])
        /\ Result.kind = "match"
        /\ \A j \in DOMAIN mCatalog :
              ZoneDistance(mQuery, mCatalog[j]) >= ZoneDistance(mQuery, mCatalog[Result.index])
        /\ Result.dissimilarity * ZoneReferenceSpan
               = ZoneDistance(mQuery, mCatalog[Result.index]) * TermDenominator(mQuery)

\* A zone-only query has been answered from a catalog holding two entries of
\* one zone with different wind speeds and temperatures.
C18_Witness ==
    /\ Called
    /\ OnlyZone(mQuery)
    /\ \E i, j \in DOMAIN mCatalog :
          /\ mCatalog[i].seismicZone = mCatalog[j].seismicZone
          /\ mCatalog[i].windSpeed # mCatalog[j].windSpeed
          /\ mCatalog[i].minTemp # mCatalog[j].minTemp
          /\ Result.index = i

\* C19: every request in flight goes to the configured API base URL: same
\* scheme, host and port, and a path below the path of BASE_URL.
C19_RequestsGoToBaseUrl ==
    \A request \in inFlight :
        /\ request.url.scheme = BASE_URL.scheme
        /\ request.url.host = BASE_URL.host
        /\ request.url.port = BASE_URL.port
        /\ Len(request.url.path) >= Len(BASE_URL.path)
        /\ SubSeq(request.url.path, 1, Len(BASE_URL.path)) = BASE_URL.path

\* C20: every request in flight to .../closest/ uses the GET method.
C20_ClosestCalledWithGet ==
    \A request \in inFlight :
        request.url.path[Len(request.url.path)] = "closest" => request.method = "GET"

----------------------------------------------------------------------------
\* C23 as stated: while the dialog is open, Confirm is enabled exactly when
\* the most recent edit since it was opened was accepted, or none has been
\* made; Cancel is always enabled.
C23_ConfirmIffLastEditAccepted ==
    showModal =>
        /\ ENABLED ConfirmModal <=> last.edit \in {"none", "accepted"}
        /\ ENABLED CancelModal

\* C23, amended: while the dialog is open, Confirm is enabled exactly when
\* the most recent edit since it was opened that was not ignored was
\* accepted, or there is none; geometryError is set exactly when that edit
\* was rejected; Cancel is always enabled.
C23_ConfirmIffLastEffectiveEditAccepted ==
    showModal =>
        /\ ENABLED ConfirmModal <=> last.effective \in {"none", "accepted"}
        /\ geometryError # "" <=> last.effective = "rejected"
        /\ ENABLED CancelModal

\* An accepted edit has just cleared the error a rejected edit had set.
C23_Witness ==
    /\ showModal
    /\ last.op \in EditOps
    /\ last.edit = "accepted"
    /\ last.preError # ""
    /\ ENABLED ConfirmModal

\* C25: openGeometryModal without a numeric carriagewayWidth leaves
\* showModal, geometry and geometryError as they are, and an updateFrom*
\* handler run while geometry is null or carriagewayWidth is not a number
\* leaves geometry and geometryError as they are.
C25_NoOpWithoutWidthOrTriple ==
    [][ /\ (last'.op = "openGeometryModal" /\ carriagewayWidth = <<>>) =>
              UNCHANGED <<showModal, geometry, geometryError>>
        /\ (last'.op \in EditOps /\ (geometry = <<>> \/ carriagewayWidth = <<>>)) =>
              UNCHANGED <<geometry, geometryError>> ]_vars

\* An edit handler has run with the carriageway field cleared, while an
\* error message was set.
C25_Witness ==
    /\ showModal
    /\ last.op \in EditOps
    /\ carriagewayWidth = <<>>
    /\ last.edit = "ignored"
    /\ last.preError # ""
    /\ geometryError = last.preError

----------------------------------------------------------------------------
\* C21: the validation run on blur accepts an entered carriageway width
\* exactly when it is at least 4.25 and below 24: any other entered width
\* leaves a carriageway error, which blocks Validate & Proceed.
C21_WidthAcceptedIffInRange ==
    (last.op = "handleCarriagewayBlur" /\ carriagewayWidth # <<>>) =>
        /\ carriagewayError = ""
              <=> (carriagewayWidth[1] >= 425 /\ carriagewayWidth[1] < 24 * Unit)
        /\ carriagewayError # "" => ~ENABLED runBackendValidation

\* C22: while the structure type, the span, the carriageway width or the
\* skew angle is still empty, Validate & Proceed is disabled.
C22_ValidateNeedsAllFields ==
    (structureType = "" \/ span = <<>> \/ carriagewayWidth = <<>> \/ skewAngle = <<>>)
        => ~ENABLED runBackendValidation

\* The districts the select offers are those of the selected state.
ListOfSelectedState ==
    Truthy(selectedState) => districts = DistrictsOf(selectedState[1])

\* The panel shows fetched parameters: location mode, a district selected,
\* and at least one parameter that is not shown as "--".
PanelShowsParams ==
    /\ locationMode = "location"
    /\ Truthy(selectedDistrict)
    /\ autoParams # NoParams

\* C24: once every response has arrived, in whatever order, the parameters
\* the panel shows in location mode are those of the selected district and
\* the district list is that of the selected state.
C24_LateResponsesNeverWin ==
    pending = {} =>
        /\ PanelShowsParams => autoParams = DetailsOf(selectedDistrict[1])
        /\ ListOfSelectedState

====
